---- MODULE Spec2Model ----
(***************************************************************************)
(* Golden model of the wireline-receiver filter chain of                   *)
(* amba_test_script.py: the six filter stages, the FEC delay pipe, the     *)
(* orchestrator FilterChainModel (clock, run_sample) and the part of       *)
(* test_filter that drives it.                                             *)
(***************************************************************************)
EXTENDS Integers, Sequences, FiniteSets, TLC

\* ------------------------------------------------------------ constants
GOLDEN_CYCLES == 30
FILTER_DW == 12
\* test_filter, STEP 1: for _ in range(8)
FIFO_DEPTH == 8

\* ------------------------------------------------------------ bounds
\* number of run_sample calls one instance receives
MaxCalls == 3
\* number of direct clock calls one instance receives
MaxTicks == 8
\* number of ticks two instances are clocked side by side
MaxPairTicks == 8
\* _sc is called with every argument in -ScSpan..ScSpan
ScSpan == 2100
\* _vdiv is called with every pair of arguments in -VdivSpan..VdivSpan
VdivSpan == 20
\* number of clock calls the glitch filter receives on its own
MaxGlitchTicks == 5
\* number of clock calls the FIR equalizer receives on its own
MaxFirTicks == 10
\* ticks given to a stage clocked on its own
MaxCtleTicks == 5

MaxDfeTicks == 6

MaxLpfTicks == 9

MaxHoldTicks == 12

\* number of device responses in one test_filter run that are not the nominal
\* ones: a write not acknowledged, a read without data, an empty output FIFO
\* reported while a sample is processed
MaxFaults == 1

\* ticks given to a glitch filter that meets one deviating sample: two at the
\* level, the deviating one, and the level again
MaxSpikeTicks == 4

\* samples handed to run_sample: a part of test_filter's vector, and 0
Samples == {0, 256, 2047, 2048, 4095}
\* inputs handed to clock directly, in and out of the signed 12-bit range
Inputs == {0, 256, 2048, -5000}
\* inputs of the two instances clocked side by side
PairInputs == {0, 256}
\* test_filter's test vector
samples == <<256, 512, 1024, 2047, 2048, 2560, 3072, 4095,
             80, 427, 717, 1007, 1092, 1365, 1638, 1911>>
\* what a STATUS read can deliver: out_cnt = in_cnt = 0, or out_cnt = in_cnt = 1
StatusValues == {0, 257}
\* what a DATA_OUT or CONTROL read delivers (the RTL note of test_filter:
\* fec_dout, captured into the output FIFO, is 0)
DataValues == {0}
\* the samples of test_filter's vector that have bit 11 set
Bit11Samples == {2048, 2560, 3072, 4095}
\* inputs of the glitch filter clocked on its own: steps below, at and above 512
GlitchInputs == {0, 512, 1000, 0 - 1000}
\* the values injected once into a fresh FIR equalizer
FirImpulses == (0 - 2048)..2047

\* ------------------------------------------------------------ helpers
Abs(v) == IF v < 0 THEN 0 - v ELSE v

\* Python's >> on an int: floor division by 2^n
Shr(v, n) == v \div (2 ^ n)

\* Python's & 0xFFF on an int (infinite two's complement): the residue mod 2^12
And0xFFF_low11(v) == v % 2048

And0xFFF(v) == v % 4096

\* a variant that wraps around like a 12-bit register instead of saturating
_sc_wrap(val) == ((val + 2048) % 4096) - 2048

_sc(val) ==
    LET lo == 0 - (2 ^ (FILTER_DW - 1))
        hi == (2 ^ (FILTER_DW - 1)) - 1
        min_hv == IF hi < val THEN hi ELSE val
    IN  IF lo > min_hv THEN lo ELSE min_hv

\* a variant that uses Python's floor division
_vdiv_floor(num, den) ==
    IF den = 0 THEN 0
    ELSE IF den > 0 THEN num \div den ELSE (0 - num) \div (0 - den)

_vdiv(num, den) ==
    IF den = 0 THEN 0
    ELSE LET sign == IF (num < 0) # (den < 0) THEN 0 - 1 ELSE 1
         IN  sign * (Abs(num) \div Abs(den))

\* sorted([a, b, c]) as a sequence
sorted3(a, b, c) ==
    LET lo == IF a <= b THEN a ELSE b
        hi == IF a <= b THEN b ELSE a
    IN  IF c <= lo THEN <<c, lo, hi>>
        ELSE IF c <= hi THEN <<lo, c, hi>>
        ELSE <<lo, hi, c>>

\* ------------------------------------------------------------ stages
_CTLE_init == [prev |-> 0, diff |-> 0, boosted |-> 0, dout |-> 0]

_CTLE_clock_noclip(self, din0) ==
    LET din == _sc(din0)
        nd  == din - self.prev
        nb  == din + Shr(self.diff, 2)
    IN  [prev |-> din, diff |-> nd, boosted |-> nb, dout |-> self.boosted]

\* a variant whose boost divides the difference by 4 rounding toward zero
_CTLE_clock_truncshift(self, din0) ==
    LET din == _sc(din0)
        nd  == din - self.prev
        nb  == din + _vdiv(self.diff, 4)
        nd2 == _sc(self.boosted)
    IN  [prev |-> din, diff |-> nd, boosted |-> nb, dout |-> nd2]

_CTLE_clock(self, din0) ==
    LET din == _sc(din0)
        nd  == din - self.prev
        nb  == din + Shr(self.diff, 2)
        nd2 == _sc(self.boosted)
    IN  [prev |-> din, diff |-> nd, boosted |-> nb, dout |-> nd2]

_DCOffset_init == [avg |-> 0, dout |-> 0]

\* a variant whose average moves by the difference over 16 rounded toward zero
_DCOffset_clock_truncshift(self, din0) ==
    LET din == _sc(din0)
        nd  == _sc(din - self.avg)
    IN  [avg |-> self.avg + _vdiv(din - self.avg, 16), dout |-> nd]

_DCOffset_clock(self, din0) ==
    LET din == _sc(din0)
        nd  == _sc(din - self.avg)
    IN  [avg |-> self.avg + Shr(din - self.avg, 4), dout |-> nd]

_C == <<0 - 32, 0 - 64, 128, 256, 128, 0 - 64, 0 - 32>>

RECURSIVE fir_sum(_, _)
fir_sum(sr, i) == IF i = 0 THEN 0 ELSE sr[i] * _C[i] + fir_sum(sr, i - 1)

_FIREq_init == [sr |-> <<0, 0, 0, 0, 0, 0, 0>>, dout |-> 0]

\* a variant that computes the output from the history after the shift
_FIREq_clock_postshift(self, din0) ==
    LET din == _sc(din0)
        nsr == <<din>> \o SubSeq(self.sr, 1, 6)
        acc == fir_sum(nsr, 7)
        nd  == _sc(Shr(acc, 8))
    IN  [sr |-> nsr, dout |-> nd]

_FIREq_clock(self, din0) ==
    LET din == _sc(din0)
        acc == fir_sum(self.sr, 7)
        nd  == _sc(Shr(acc, 8))
    IN  [sr |-> <<din>> \o SubSeq(self.sr, 1, 6), dout |-> nd]

_DFE_init == [prev_dec |-> 0, fb |-> 0, dout |-> 0]

\* a variant that takes the decision from the output computed in this tick
_DFE_clock_newdec(self, din0) ==
    LET din     == _sc(din0)
        nd      == _sc(din - self.fb)
        new_fb  == self.prev_dec * 64
        new_dec == IF nd >= 0 THEN 1 ELSE 0 - 1
    IN  [prev_dec |-> new_dec, fb |-> new_fb, dout |-> nd]

\* a variant that subtracts the feedback of this tick's decision register
_DFE_clock_fbnow(self, din0) ==
    LET din     == _sc(din0)
        new_fb  == self.prev_dec * 64
        nd      == _sc(din - new_fb)
        new_dec == IF self.dout >= 0 THEN 1 ELSE 0 - 1
    IN  [prev_dec |-> new_dec, fb |-> new_fb, dout |-> nd]

_DFE_clock(self, din0) ==
    LET din     == _sc(din0)
        nd      == _sc(din - self.fb)
        new_fb  == self.prev_dec * 64
        new_dec == IF self.dout >= 0 THEN 1 ELSE 0 - 1
    IN  [prev_dec |-> new_dec, fb |-> new_fb, dout |-> nd]

_Glitch_init == [s1 |-> 0, s2 |-> 0, dout |-> 0]

\* a variant that measures the spike against the older stored sample
_Glitch_spike_s2(self, din0) == Abs(_sc(din0) - self.s2) > 512

\* a variant whose threshold comparison is not strict
_Glitch_spike_nonstrict(self, din0) == Abs(_sc(din0) - self.s1) >= 512

\* the condition of the median branch: abs(din - s1) > 512
_Glitch_spike(self, din0) == Abs(_sc(din0) - self.s1) > 512

_Glitch_clock(self, din0) ==
    LET din    == _sc(din0)
        s1     == self.s1
        s2     == self.s2
        median == sorted3(din, s1, s2)[2]
        nd     == IF _Glitch_spike(self, din0) THEN median ELSE din
    IN  [s1 |-> din, s2 |-> s1, dout |-> nd]

_LPF_init == [x |-> <<0, 0, 0, 0, 0>>, acc |-> 0, acc_d |-> 0, pipe |-> 0, dout |-> 0]

\* a variant whose division by 9 rounds toward minus infinity
_LPF_clock_floordiv(self, din0) ==
    LET din     == _sc(din0)
        ox      == self.x
        new_acc == ox[1] + (ox[2] * 2) + ox[3] * 3 + (ox[4] * 2) + ox[5]
        new_ad  == self.acc \div 9
        new_p   == _sc(self.acc_d)
        nd      == _sc(self.pipe)
    IN  [x |-> <<din>> \o SubSeq(ox, 1, 4), acc |-> new_acc, acc_d |-> new_ad,
         pipe |-> new_p, dout |-> nd]

_LPF_clock(self, din0) ==
    LET din     == _sc(din0)
        ox      == self.x
        new_acc == ox[1] + (ox[2] * 2) + ox[3] * 3 + (ox[4] * 2) + ox[5]
        new_ad  == _vdiv(self.acc, 9)
        new_p   == _sc(self.acc_d)
        nd      == _sc(self.pipe)
    IN  [x |-> <<din>> \o SubSeq(ox, 1, 4), acc |-> new_acc, acc_d |-> new_ad,
         pipe |-> new_p, dout |-> nd]

\* ------------------------------------------------------------ orchestrator
FilterChainModel_init ==
    [ctle |-> _CTLE_init, dc |-> _DCOffset_init, fir |-> _FIREq_init,
     dfe |-> _DFE_init, gl |-> _Glitch_init, lpf |-> _LPF_init,
     fec_pipe |-> <<0, 0>>]

\* one call of clock: the instance after the call and the value returned
FilterChainModel_clock(self, din) ==
    LET c == _CTLE_clock(self.ctle, din)
        d == _DCOffset_clock(self.dc, c.dout)
        f == _FIREq_clock(self.fir, d.dout)
        e == _DFE_clock(self.dfe, f.dout)
        g == _Glitch_clock(self.gl, e.dout)
        l == _LPF_clock(self.lpf, g.dout)
        y_fec == self.fec_pipe[1]
    IN  [self |-> [ctle |-> c, dc |-> d, fir |-> f, dfe |-> e, gl |-> g, lpf |-> l,
                   fec_pipe |-> <<l.dout, self.fec_pipe[1]>>],
         ret |-> y_fec]

\* test_filter: g_signed = g_out if g_out < 0x800 else g_out - 0x1000
g_signed_of(g) == IF g < 2048 THEN g ELSE g - 4096

\* n calls of clock with the same input, as one operator: the reference the
\* stepwise loop of run_sample is compared with (the membership test makes
\* TLC evaluate each call before the next one)
RECURSIVE ClockN(_, _, _)
ClockN(r, din, n) ==
    IF n = 0 THEN r
    ELSE LET nxt == FilterChainModel_clock(r.self, din)
         IN  IF nxt.ret \in Int THEN ClockN(nxt, din, n - 1) ELSE nxt

\* ------------------------------------------------------------ state
VARIABLES
    golden_model,   \* the FilterChainModel instance
    pc,             \* "idle", or "loop" inside run_sample
    i,              \* run_sample: iterations of the loop done
    sample_12b,     \* run_sample's argument
    out,            \* run_sample's local out; the last value clock returned
    golden_out,     \* test_filter: the values run_sample returned, in order
    g_signed,       \* test_filter: the last returned value, read as signed
    hist,           \* history: the arguments of the run_sample calls made
    ys,             \* history: the values clock returned, in order
    lpf_ys,         \* history: the LPF stage's outputs, in order
    ref,            \* reference instance, advanced 30 clocks per run_sample
    other,          \* a second instance clocked side by side
    other_ys,       \* history: the values the second instance's clock returned
    k,              \* the first tick at which the two instances' inputs differ, or 0
    arg_a,          \* a helper function's first argument
    arg_b,          \* a helper function's second argument
    fn_ret,         \* the value the helper function returned
    applied,        \* whether the helper function has been called
    stage,          \* a single stage instance, clocked on its own
    xs,             \* history: the inputs the single stage was clocked with
    zs,             \* history: the values the single stage's clock returned
    spikes,         \* history: whether the glitch filter took its median branch
    held,           \* the value a caller holds or injects at a stage's input
    tf_pc,          \* test_filter's position: "enable", "verify", "drain",
                    \* "samples", "done", or "aborted" after the early return
    enable_ok,      \* test_filter: what the CONTROL write returned
    drain_n,        \* test_filter: iterations of the drain loop done (0 once left)
    idx,            \* test_filter: samples processed
    hw_outputs,     \* test_filter: the hardware values read, in order
    per_sample,     \* test_filter: the per-sample records, in order
    pass_all,       \* test_filter: no sample has failed so far
    verdict,        \* test_filter: the overall status printed, or "none"
    faults,         \* history: device responses so far that were not nominal
    last_failed     \* history: a transport operation of the last sample failed

pureVars == <<arg_a, arg_b, fn_ret, applied>>

stageVars == <<stage, xs, zs, spikes, held>>

tfVars == <<tf_pc, enable_ok, drain_n, idx, hw_outputs, per_sample, pass_all,
            verdict, faults, last_failed>>

auxVars == <<pureVars, stageVars, tfVars>>

vars == <<golden_model, pc, i, sample_12b, out, golden_out, g_signed, hist, ys,
          lpf_ys, ref, other, other_ys, k, auxVars>>

\* the variables of the orchestrator and of the part of test_filter driving it
chainVars == <<golden_model, pc, i, sample_12b, out, golden_out, g_signed, hist, ys,
               lpf_ys, ref, other, other_ys, k>>

ChainInit ==
    /\ golden_model = FilterChainModel_init
    /\ pc = "idle"
    /\ i = 0
    /\ sample_12b = 0
    /\ out = 0
    /\ golden_out = <<>>
    /\ g_signed = 0
    /\ hist = <<>>
    /\ ys = <<>>
    /\ lpf_ys = <<>>
    /\ ref = [self |-> FilterChainModel_init, ret |-> 0]
    /\ other = FilterChainModel_init
    /\ other_ys = <<>>
    /\ k = 0

PureInit == arg_a = 0 /\ arg_b = 0 /\ fn_ret = 0 /\ applied = FALSE

StageInit ==
    /\ stage = _CTLE_init
    /\ xs = <<>>
    /\ zs = <<>>
    /\ spikes = <<>>
    /\ held = 0

\* test_filter's locals before its first transport operation
TfInit ==
    /\ tf_pc = "enable"
    /\ enable_ok = FALSE
    /\ drain_n = 0
    /\ idx = 0
    /\ hw_outputs = <<>>
    /\ per_sample = <<>>
    /\ pass_all = TRUE
    /\ verdict = "none"
    /\ faults = 0
    /\ last_failed = FALSE

Init == ChainInit /\ PureInit /\ StageInit /\ TfInit

\* ------------------------------------------------------------ run_sample
\* a variant that constructs a fresh instance at entry
RunSampleCall_reset(s) ==
    /\ pc = "idle"
    /\ Len(hist) < MaxCalls
    /\ pc' = "loop"
    /\ sample_12b' = And0xFFF(s)
    /\ out' = 0
    /\ i' = 0
    /\ hist' = Append(hist, And0xFFF(s))
    /\ golden_model' = FilterChainModel_init
    /\ UNCHANGED <<golden_out, g_signed, ys, lpf_ys, ref, other, other_ys, k>>
    /\ UNCHANGED auxVars

\* test_filter takes the next sample and enters run_sample: out = 0
RunSampleCall(s) ==
    /\ pc = "idle"
    /\ Len(hist) < MaxCalls
    /\ pc' = "loop"
    /\ sample_12b' = And0xFFF(s)
    /\ out' = 0
    /\ i' = 0
    /\ hist' = Append(hist, And0xFFF(s))
    /\ UNCHANGED <<golden_model, golden_out, g_signed, ys, lpf_ys, ref, other,
                   other_ys, k>>
    /\ UNCHANGED auxVars

\* one iteration of the loop: out = self.clock(sample_12b)
RunSampleLoop ==
    /\ pc = "loop"
    /\ i < GOLDEN_CYCLES
    /\ LET r == FilterChainModel_clock(golden_model, sample_12b)
       IN  /\ golden_model' = r.self
           /\ out' = r.ret
           /\ ys' = Append(ys, r.ret)
           /\ lpf_ys' = Append(lpf_ys, r.self.lpf.dout)
    /\ i' = i + 1
    /\ UNCHANGED <<pc, sample_12b, golden_out, g_signed, hist, ref, other,
                   other_ys, k>>
    /\ UNCHANGED auxVars

\* return out & 0xFFF; test_filter appends it and converts it to signed
RunSampleReturn ==
    /\ pc = "loop"
    /\ i >= GOLDEN_CYCLES
    /\ pc' = "idle"
    /\ golden_out' = Append(golden_out, And0xFFF(out))
    /\ g_signed' = g_signed_of(And0xFFF(out))
    /\ ref' = ClockN(ref, sample_12b, GOLDEN_CYCLES)
    /\ UNCHANGED <<golden_model, i, sample_12b, out, hist, ys, lpf_ys, other,
                   other_ys, k>>
    /\ UNCHANGED auxVars

Next ==
    \/ \E s \in Samples : RunSampleCall(s)
    \/ RunSampleLoop
    \/ RunSampleReturn

Spec == Init /\ [][Next]_vars

\* ------------------------------------------------------------ direct clocking
\* a caller clocks the instance once with an arbitrary input
ClockCall(din) ==
    /\ pc = "idle"
    /\ Len(ys) < MaxTicks
    /\ LET r == FilterChainModel_clock(golden_model, din)
       IN  /\ golden_model' = r.self
           /\ out' = r.ret
           /\ ys' = Append(ys, r.ret)
           /\ lpf_ys' = Append(lpf_ys, r.self.lpf.dout)
    /\ UNCHANGED <<pc, i, sample_12b, golden_out, g_signed, hist, ref, other,
                   other_ys, k>>
    /\ UNCHANGED auxVars

NextClock == \E din \in Inputs : ClockCall(din)

SpecClock == Init /\ [][NextClock]_vars

\* two fresh instances clocked side by side, each with its own input
PairClock(d1, d2) ==
    /\ pc = "idle"
    /\ Len(ys) < MaxPairTicks
    /\ LET r1 == FilterChainModel_clock(golden_model, d1)
           r2 == FilterChainModel_clock(other, d2)
       IN  /\ golden_model' = r1.self
           /\ out' = r1.ret
           /\ ys' = Append(ys, r1.ret)
           /\ lpf_ys' = Append(lpf_ys, r1.self.lpf.dout)
           /\ other' = r2.self
           /\ other_ys' = Append(other_ys, r2.ret)
    /\ k' = IF k = 0 /\ d1 # d2 THEN Len(ys) + 1 ELSE k
    /\ UNCHANGED <<pc, i, sample_12b, golden_out, g_signed, hist, ref>>
    /\ UNCHANGED auxVars

NextPair == \E d1 \in PairInputs, d2 \in PairInputs : PairClock(d1, d2)

SpecPair == Init /\ [][NextPair]_vars

\* ------------------------------------------------------------ helper functions
\* a caller calls _sc(arg_a) once
ScCall ==
    /\ ~applied
    /\ fn_ret' = _sc(arg_a)
    /\ applied' = TRUE
    /\ UNCHANGED <<chainVars, stageVars, tfVars, arg_a, arg_b>>

InitSc ==
    /\ ChainInit /\ StageInit /\ TfInit
    /\ arg_a \in (0 - ScSpan)..ScSpan
    /\ arg_b = 0
    /\ fn_ret = 0
    /\ applied = FALSE

NextSc == ScCall

SpecSc == InitSc /\ [][NextSc]_vars

\* a caller calls _vdiv(arg_a, arg_b) once
VdivCall ==
    /\ ~applied
    /\ fn_ret' = _vdiv(arg_a, arg_b)
    /\ applied' = TRUE
    /\ UNCHANGED <<chainVars, stageVars, tfVars, arg_a, arg_b>>

InitVdiv ==
    /\ ChainInit /\ StageInit /\ TfInit
    /\ arg_a \in (0 - VdivSpan)..VdivSpan
    /\ arg_b \in (0 - VdivSpan)..VdivSpan
    /\ fn_ret = 0
    /\ applied = FALSE

NextVdiv == VdivCall

SpecVdiv == InitVdiv /\ [][NextVdiv]_vars

\* ------------------------------------------------------------ single stages
\* a caller clocks a glitch filter once
GlitchCall(din) ==
    /\ Len(xs) < MaxGlitchTicks
    /\ stage' = _Glitch_clock(stage, din)
    /\ xs' = Append(xs, din)
    /\ zs' = Append(zs, _Glitch_clock(stage, din).dout)
    /\ spikes' = Append(spikes, _Glitch_spike(stage, din))
    /\ UNCHANGED <<chainVars, pureVars, tfVars, held>>

InitGlitch ==
    /\ ChainInit /\ PureInit /\ TfInit
    /\ stage = _Glitch_init
    /\ xs = <<>> /\ zs = <<>> /\ spikes = <<>> /\ held = 0

NextGlitch == \E din \in GlitchInputs : GlitchCall(din)

SpecGlitch == InitGlitch /\ [][NextGlitch]_vars

\* a caller clocks a FIR equalizer: with held on the first call, with 0 after
FirImpulseCall ==
    /\ Len(xs) < MaxFirTicks
    /\ LET din == IF Len(xs) = 0 THEN held ELSE 0
       IN  /\ stage' = _FIREq_clock(stage, din)
           /\ xs' = Append(xs, din)
           /\ zs' = Append(zs, _FIREq_clock(stage, din).dout)
    /\ UNCHANGED <<chainVars, pureVars, tfVars, spikes, held>>

InitFir ==
    /\ ChainInit /\ PureInit /\ TfInit
    /\ stage = _FIREq_init
    /\ xs = <<>> /\ zs = <<>> /\ spikes = <<>>
    /\ held \in FirImpulses

NextFir == FirImpulseCall

SpecFir == InitFir /\ [][NextFir]_vars

\* ------------------------------------------------------------ test_filter
\* ahb_read returns None, modelled as <<>>, or the word read, modelled as <<w>>
None == <<>>

\* the possible returns of ahb_read
ahb_read(values) == {None} \cup {<<w>> : w \in values}

\* the possible returns of ahb_write
ahb_write == BOOLEAN

B2N(b) == IF b THEN 1 ELSE 0

\* STEP 0: write CONTROL; return at once when the write is not acknowledged
TfEnable ==
    /\ tf_pc = "enable"
    /\ \E ok \in ahb_write :
           /\ faults + B2N(~ok) <= MaxFaults
           /\ faults' = faults + B2N(~ok)
           /\ enable_ok' = ok
           /\ tf_pc' = IF ok THEN "verify" ELSE "aborted"
    /\ UNCHANGED <<chainVars, pureVars, stageVars, drain_n, idx, hw_outputs,
                   per_sample, pass_all, verdict, last_failed>>

\* read CONTROL back; the value is only printed
TfVerify ==
    /\ tf_pc = "verify"
    /\ \E ctrl_rd \in ahb_read(DataValues) :
           /\ faults + B2N(ctrl_rd = None) <= MaxFaults
           /\ faults' = faults + B2N(ctrl_rd = None)
    /\ tf_pc' = "drain"
    /\ UNCHANGED <<chainVars, pureVars, stageVars, enable_ok, drain_n, idx,
                   hw_outputs, per_sample, pass_all, verdict, last_failed>>

\* STEP 1: one iteration of the drain loop, or its end after FIFO_DEPTH iterations
TfDrain ==
    /\ tf_pc = "drain"
    /\ IF drain_n >= FIFO_DEPTH
       THEN /\ tf_pc' = "samples"
            /\ drain_n' = 0
            /\ UNCHANGED faults
       ELSE \E status \in ahb_read(StatusValues), popped \in ahb_read(DataValues) :
                LET brk == status = None \/ status[1] % 16 = 0
                    nf  == B2N(status = None) + B2N(~brk /\ popped = None)
                IN  /\ (brk => popped = <<0>>)
                    /\ faults + nf <= MaxFaults
                    /\ faults' = faults + nf
                    /\ tf_pc' = IF brk THEN "samples" ELSE "drain"
                    /\ drain_n' = IF brk THEN 0 ELSE drain_n + 1
    /\ UNCHANGED <<chainVars, pureVars, stageVars, enable_ok, idx, hw_outputs,
                   per_sample, pass_all, verdict, last_failed>>

\* a variant in which a failed settled read ends test_filter
after_sample_fatal(result, ok_w1, ok_w2) ==
    IF result = None THEN "aborted" ELSE "samples"

\* test_filter's position after a sample: neither branch of the comparison
\* returns or breaks, the loop goes on
after_sample(result, ok_w1, ok_w2) == "samples"

\* STEP 3, one iteration: the golden value, both writes, the drain of the
\* stale entry, the STATUS and DATA_OUT reads, and the per-sample record
TfSample ==
    /\ tf_pc = "samples"
    /\ idx < Len(samples)
    /\ LET s12   == And0xFFF(samples[idx + 1])
           run   == ClockN([self |-> golden_model, ret |-> 0], s12, GOLDEN_CYCLES)
           g_out == And0xFFF(run.ret)
       IN  /\ golden_model' = run.self
           /\ sample_12b' = s12
           /\ out' = run.ret
           /\ golden_out' = Append(golden_out, g_out)
           /\ g_signed' = g_signed_of(g_out)
           /\ \E ok_w1 \in ahb_write, st1 \in ahb_read(StatusValues),
                 stale \in ahb_read(DataValues), ok_w2 \in ahb_write,
                 status \in ahb_read(StatusValues), result \in ahb_read(DataValues) :
                  LET pop     == st1 # None /\ st1[1] % 16 > 0
                      out_cnt == IF status # None THEN status[1] % 16 ELSE 0
                      in_cnt  == IF status # None THEN (status[1] \div 256) % 16 ELSE 0
                      failed  == \/ ~ok_w1 \/ ~ok_w2
                                 \/ st1 = None \/ status = None \/ result = None
                                 \/ (pop /\ stale = None)
                      nf      == B2N(~ok_w1) + B2N(~ok_w2) + B2N(result = None)
                                 + B2N(~pop) + B2N(pop /\ stale = None)
                                 + B2N(out_cnt = 0)
                  IN  /\ (~pop => stale = <<0>>)
                      /\ faults + nf <= MaxFaults
                      /\ faults' = faults + nf
                      /\ last_failed' = failed
                      /\ tf_pc' = after_sample(result, ok_w1, ok_w2)
                      /\ IF result # None /\ (ok_w1 \/ ok_w2)
                         THEN LET hw_val == And0xFFF(result[1])
                              IN  /\ hw_outputs' = Append(hw_outputs, hw_val)
                                  /\ pass_all' = pass_all
                                  /\ per_sample' = Append(per_sample,
                                         [input |-> s12, golden |-> g_out,
                                          hw |-> <<hw_val>>, in_cnt |-> in_cnt,
                                          out_cnt |-> out_cnt, ok |-> TRUE])
                         ELSE /\ hw_outputs' = hw_outputs
                              /\ pass_all' = FALSE
                              /\ per_sample' = Append(per_sample,
                                     [input |-> s12, golden |-> g_out,
                                      hw |-> None, ok |-> FALSE])
    /\ idx' = idx + 1
    /\ UNCHANGED <<pc, i, hist, ys, lpf_ys, ref, other, other_ys, k>>
    /\ UNCHANGED <<pureVars, stageVars, enable_ok, drain_n, verdict>>

\* STEP 4 and STEP 5: the breakdown and the overall status
TfSummary ==
    /\ tf_pc = "samples"
    /\ idx >= Len(samples)
    /\ verdict' = IF pass_all THEN "PASS" ELSE "FAIL"
    /\ tf_pc' = "done"
    /\ UNCHANGED <<chainVars, pureVars, stageVars, enable_ok, drain_n, idx,
                   hw_outputs, per_sample, pass_all, faults, last_failed>>

NextFilter ==
    \/ TfEnable
    \/ TfVerify
    \/ TfDrain
    \/ TfSample
    \/ TfSummary

SpecFilter == Init /\ [][NextFilter]_vars

\* ------------------------------------------------------------ single stages
\* inputs of a CTLE clocked on its own: in range, at both rails, beyond 12 bits
CtleInputs == {0, 3, 2047, 0 - 2048, 5000}

\* a caller clocks a fresh CTLE stage
CtleCall(din) ==
    /\ Len(xs) < MaxCtleTicks
    /\ stage' = _CTLE_clock(stage, din)
    /\ xs' = Append(xs, din)
    /\ zs' = Append(zs, _CTLE_clock(stage, din).dout)
    /\ UNCHANGED <<chainVars, pureVars, tfVars, spikes, held>>

InitCtle ==
    /\ ChainInit /\ PureInit /\ TfInit
    /\ stage = _CTLE_init
    /\ xs = <<>> /\ zs = <<>> /\ spikes = <<>> /\ held = 0

NextCtle == \E din \in CtleInputs : CtleCall(din)

SpecCtle == InitCtle /\ [][NextCtle]_vars

\* inputs of a DFE clocked on its own: sign-clipped 12-bit values (its contract)
DfeInputs == {0, 0 - 100, 2047, 0 - 2048}

\* a caller clocks a fresh DFE stage
DfeCall(din) ==
    /\ Len(xs) < MaxDfeTicks
    /\ stage' = _DFE_clock(stage, din)
    /\ xs' = Append(xs, din)
    /\ zs' = Append(zs, _DFE_clock(stage, din).dout)
    /\ UNCHANGED <<chainVars, pureVars, tfVars, spikes, held>>

InitDfe ==
    /\ ChainInit /\ PureInit /\ TfInit
    /\ stage = _DFE_init
    /\ xs = <<>> /\ zs = <<>> /\ spikes = <<>> /\ held = 0

NextDfe == \E din \in DfeInputs : DfeCall(din)

SpecDfe == InitDfe /\ [][NextDfe]_vars

\* inputs of an LPF clocked on its own
LpfInputs == {0, 0 - 7, 5000}

\* a caller clocks a fresh LPF stage
LpfCall(din) ==
    /\ Len(xs) < MaxLpfTicks
    /\ stage' = _LPF_clock(stage, din)
    /\ xs' = Append(xs, din)
    /\ zs' = Append(zs, _LPF_clock(stage, din).dout)
    /\ UNCHANGED <<chainVars, pureVars, tfVars, spikes, held>>

InitLpf ==
    /\ ChainInit /\ PureInit /\ TfInit
    /\ stage = _LPF_init
    /\ xs = <<>> /\ zs = <<>> /\ spikes = <<>> /\ held = 0

NextLpf == \E din \in LpfInputs : LpfCall(din)

SpecLpf == InitLpf /\ [][NextLpf]_vars

\* the constants a DFE is held at: every c with -64 < c < 64
HoldInputs == (0 - 63)..63

\* a caller clocks a fresh DFE stage with the constant held
DfeHoldCall ==
    /\ Len(xs) < MaxHoldTicks
    /\ stage' = _DFE_clock(stage, held)
    /\ xs' = Append(xs, held)
    /\ zs' = Append(zs, _DFE_clock(stage, held).dout)
    /\ UNCHANGED <<chainVars, pureVars, tfVars, spikes, held>>

InitDfeHold ==
    /\ ChainInit /\ PureInit /\ TfInit
    /\ stage = _DFE_init
    /\ held \in HoldInputs
    /\ xs = <<>> /\ zs = <<>> /\ spikes = <<>>

NextDfeHold == DfeHoldCall

SpecDfeHold == InitDfeHold /\ [][NextDfeHold]_vars

\* the constants a DC-offset tracker is held at: every 12-bit value
DcHoldInputs == (0 - 2048)..2047

\* a caller clocks a fresh DC-offset tracker with the constant held
DcHoldCall ==
    /\ stage' = _DCOffset_clock(stage, held)
    /\ UNCHANGED <<chainVars, pureVars, tfVars, xs, zs, spikes, held>>

InitDcHold ==
    /\ ChainInit /\ PureInit /\ TfInit
    /\ stage = _DCOffset_init
    /\ held \in DcHoldInputs
    /\ xs = <<>> /\ zs = <<>> /\ spikes = <<>>

NextDcHold == DcHoldCall

SpecDcHold == InitDcHold /\ [][NextDcHold]_vars

\* the caller goes on clocking the tracker
SpecDcHoldFair == SpecDcHold /\ WF_vars(NextDcHold)

\* the levels a glitch filter rests at before the deviating sample
SpikeLevels == {0 - 2048, 0 - 1, 0, 700, 2047}

\* the deviating samples: every 12-bit value
SpikeInputs == (0 - 2048)..2047

\* a caller clocks a glitch filter with the level held: the first two calls
\* and every call after the deviating sample
LevelCall ==
    /\ Len(xs) < MaxSpikeTicks
    /\ Len(xs) # 2
    /\ stage' = _Glitch_clock(stage, held)
    /\ xs' = Append(xs, held)
    /\ zs' = Append(zs, _Glitch_clock(stage, held).dout)
    /\ UNCHANGED <<chainVars, pureVars, tfVars, spikes, held>>

\* the third call passes one sample S
SpikeCall(S) ==
    /\ Len(xs) = 2
    /\ stage' = _Glitch_clock(stage, S)
    /\ xs' = Append(xs, S)
    /\ zs' = Append(zs, _Glitch_clock(stage, S).dout)
    /\ UNCHANGED <<chainVars, pureVars, tfVars, spikes, held>>

InitSpike ==
    /\ ChainInit /\ PureInit /\ TfInit
    /\ stage = _Glitch_init
    /\ held \in SpikeLevels
    /\ xs = <<>> /\ zs = <<>> /\ spikes = <<>>

NextSpike ==
    \/ LevelCall
    \/ \E S \in SpikeInputs : SpikeCall(S)

SpecSpike == InitSpike /\ [][NextSpike]_vars

\* ------------------------------------------------------------ claims
Last(s) == s[Len(s)]

InRange12(v) == v >= 0 - 2048 /\ v <= 2047

StageOutputs(m) ==
    <<m.ctle.dout, m.dc.dout, m.fir.dout, m.dfe.dout, m.gl.dout, m.lpf.dout>>

AllSame(s) == \A j \in 1..Len(s) : s[j] = s[1]

\* run_sample(s) on a fresh instance: the returned value
FreshRunSample(s) ==
    And0xFFF(ClockN([self |-> FilterChainModel_init, ret |-> 0], s, GOLDEN_CYCLES).ret)

\* C1: a fresh instance given run_sample(0) has every stage output 0 on every
\* one of the 30 ticks, every clock call returns 0, and run_sample returns 0.
C1_ZeroFixedPoint ==
    hist = <<0>> =>
        /\ \A j \in 1..6 : StageOutputs(golden_model)[j] = 0
        /\ out = 0
        /\ (pc = "idle" => golden_out = <<0>>)

\* C2: an instance clocked with one and the same 12-bit sample on every tick
\* returns at every tick n >= 30 the value it returned at tick 30.
C2_SteadyAfter30 ==
    (Len(hist) >= 1 /\ AllSame(hist) /\ Len(ys) >= GOLDEN_CYCLES)
        => Last(ys) = ys[GOLDEN_CYCLES]

\* C3: run_sample(0x100) repeated on one instance returns, on the second and
\* on every further call, the value the first call returned.
C3_RepeatIdentical ==
    \A j \in 1..Len(golden_out) :
        (\A h \in 1..j : hist[h] = 256) => golden_out[j] = golden_out[1]

\* C4: run_sample(s) on an instance that executed run_sample(p) before returns
\* what run_sample(s) returns on a fresh instance.
C4_FlushedByGoldenCycles ==
    (pc = "idle" /\ Len(golden_out) >= 2)
        => Last(golden_out) = FreshRunSample(Last(hist))

\* C5: after run_sample(s1), ..., run_sample(sk) the instance is in the state
\* that 30 clock(s1) calls, ..., 30 clock(sk) calls lead to from a fresh one,
\* and the value returned last is the 30th clock output of the last call,
\* reduced to 0..4095 modulo 4096.
C5_NoReset ==
    pc = "idle" =>
        /\ golden_model = ref.self
        /\ Len(golden_out) = Len(hist)
        /\ (Len(golden_out) >= 1 =>
               /\ Last(golden_out) \in 0..4095
               /\ (Last(golden_out) - ref.ret) % 4096 = 0)

C5_Witness ==
    /\ pc = "idle"
    /\ Len(hist) >= 2
    /\ hist[1] # hist[2]
    /\ golden_model # FilterChainModel_init
    /\ golden_model = ref.self

\* C6: every stage's stored output, both FEC pipe entries and the value clock
\* returned lie in [-2048, 2047], whatever inputs clock was given.
C6_OutputsIn12Bits ==
    /\ \A j \in 1..6 : InRange12(StageOutputs(golden_model)[j])
    /\ InRange12(golden_model.fec_pipe[1])
    /\ InRange12(golden_model.fec_pipe[2])
    /\ InRange12(out)

\* an out-of-range input has been clipped on entry, the CTLE's boosted register
\* has left the 12-bit range and its clipped output has reached the rail
C6_Witness ==
    /\ Len(ys) >= 4
    /\ golden_model.ctle.prev = 2047
    /\ golden_model.ctle.boosted > 2047
    /\ golden_model.ctle.dout = 2047

\* C7: the value run_sample returns is in 0..4095 and congruent modulo 4096 to
\* the last tick's signed output y, and test_filter's conversion to signed
\* gives y back; the round trip is exact for every value clock returns.
C7_MaskRoundTrip ==
    /\ (pc = "idle" /\ Len(golden_out) >= 1) =>
           /\ Last(golden_out) \in 0..4095
           /\ (Last(golden_out) - out) % 4096 = 0
           /\ g_signed = out
    /\ g_signed_of(And0xFFF(out)) = out

C7_Witness ==
    /\ pc = "idle"
    /\ Len(golden_out) >= 1
    /\ out < 0
    /\ Last(golden_out) >= 2048
    /\ g_signed = out

\* C8: in every state of the instance, clock(s) for a sample s with bit 11 set
\* gives the next state and output that clock(s - 4096) gives.
C8_Bit11IsNegative ==
    \A s \in Bit11Samples :
        FilterChainModel_clock(golden_model, s)
            = FilterChainModel_clock(golden_model, s - 4096)

\* C9: the value clock returns at tick t >= 3 is the LPF stage's output of
\* tick t-2, and the first two ticks of a fresh instance return 0.
C9_FecTwoTickDelay ==
    /\ \A t \in 3..Len(ys) : ys[t] = lpf_ys[t - 2]
    /\ \A t \in 1..Len(ys) : t <= 2 => ys[t] = 0

\* C10: two fresh instances whose inputs agree on all ticks before tick k
\* return the same values on every tick before tick k+12.
C10_Latency12 ==
    \A t \in 1..Len(ys) : (k = 0 \/ t < k + 12) => ys[t] = other_ys[t]

\* C11: _sc(v) is v for v in [-2048, 2047], -2048 for v below and 2047 for v
\* above that range, and applying _sc to its result changes nothing.
C11_SignClip ==
    applied =>
        /\ (InRange12(arg_a) => fn_ret = arg_a)
        /\ (arg_a < 0 - 2048 => fn_ret = 0 - 2048)
        /\ (arg_a > 2047 => fn_ret = 2047)
        /\ _sc(fn_ret) = fn_ret

C11_Witness ==
    /\ applied
    /\ arg_a > 2047
    /\ fn_ret = 2047

\* floor division, for either sign of the divisor
FloorDiv(n, d) == IF d > 0 THEN n \div d ELSE (0 - n) \div (0 - d)

\* C12: for b # 0, _vdiv(a, b) is the quotient q with a = q*b + r, |r| < |b|
\* and r zero or of a's sign; it differs from the floor quotient whenever a and
\* b have opposite signs and b does not divide a; _vdiv(a, 0) = 0; and
\* _vdiv(-a, b) = -_vdiv(a, b).
C12_TruncDiv ==
    applied =>
        /\ (arg_b = 0 => fn_ret = 0)
        /\ (arg_b # 0 =>
               LET rem == arg_a - fn_ret * arg_b
               IN  /\ Abs(rem) < Abs(arg_b)
                   /\ (rem = 0 \/ (rem < 0) = (arg_a < 0)))
        /\ ((arg_b # 0 /\ (arg_a < 0) # (arg_b < 0) /\ arg_a % Abs(arg_b) # 0)
               => fn_ret # FloorDiv(arg_a, arg_b))
        /\ _vdiv(0 - arg_a, arg_b) = 0 - fn_ret

C12_Witness ==
    /\ applied
    /\ arg_a < 0
    /\ arg_b > 0
    /\ arg_a % arg_b # 0
    /\ fn_ret = (arg_a \div arg_b) + 1

\* the ticks t at which three consecutive identical inputs begin
Triples == {t \in 1..(Len(xs) - 2) : xs[t] = xs[t + 1] /\ xs[t + 1] = xs[t + 2]}

FirImpulseResponse(v, t) ==
    CASE t = 0 -> 0
      [] t = 1 -> ((0 - 32) * v) \div 256
      [] t = 2 -> ((0 - 64) * v) \div 256
      [] t = 3 -> (128 * v) \div 256
      [] t = 4 -> v
      [] t = 5 -> (128 * v) \div 256
      [] t = 6 -> ((0 - 64) * v) \div 256
      [] t = 7 -> ((0 - 32) * v) \div 256
      [] OTHER -> 0

\* C14: a fresh FIR equalizer given v at tick 0 and 0 afterwards outputs 0 at
\* tick 0, floor(c*v/256) at ticks 1, 2, 3, 5, 6, 7 for c = -32, -64, 128, 128,
\* -64, -32, v itself at tick 4, and 0 from tick 8 on.
C14_FirImpulse ==
    \A n \in 1..Len(zs) : zs[n] = FirImpulseResponse(held, n - 1)

C14_Witness ==
    /\ Len(zs) >= 9
    /\ held = 0 - 1001
    /\ zs[1] = 0
    /\ zs[2] = 125
    /\ zs[4] = 0 - 501
    /\ zs[5] = 0 - 1001
    /\ zs[9] = 0

\* C15: when a transport operation issued for a sample fails (a DATA_IN write
\* not acknowledged, a STATUS or DATA_OUT read without data), the sample's
\* record has ok = False and the overall result is FAIL.
C15_FailureMarksSample ==
    (idx >= 1 /\ last_failed) =>
        /\ ~Last(per_sample).ok
        /\ ~pass_all
        /\ (tf_pc = "done" => verdict = "FAIL")

\* C16 as stated: whatever transport operations fail, test_filter does not
\* end early, and at its summary it has one record for each of the 16 samples.
C16_NeverFatal ==
    /\ tf_pc # "aborted"
    /\ (tf_pc = "done" => Len(per_sample) = Len(samples))

C16_RecordPerSample ==
    /\ Len(per_sample) = idx
    /\ (tf_pc = "aborted" => ~enable_ok /\ idx = 0)
    /\ (tf_pc = "done" =>
           /\ idx = 16
           /\ Len(per_sample) = Len(samples)
           /\ \A j \in 1..Len(samples) : per_sample[j].input = samples[j])

\* a step taken after the CONTROL write never ends test_filter early, and a
\* step of the sample loop appends one record and stays in the loop
C16_StepOn ==
    /\ (tf_pc # "enable" => tf_pc' # "aborted")
    /\ ((tf_pc = "samples" /\ idx < Len(samples)) =>
           /\ tf_pc' = "samples"
           /\ idx' = idx + 1
           /\ Len(per_sample') = Len(per_sample) + 1)
    /\ (tf_pc' = "done" => idx = Len(samples))

\* C16 amended: only an unacknowledged CONTROL write ends test_filter early,
\* before any sample; once that write is acknowledged, whatever later
\* transport operations fail, each sample processed appends exactly one record,
\* the loop is left only after the last sample, and the summary step has a
\* record for each of the 16 samples, in order.
C16_FatalOnlyAtEnable ==
    /\ []C16_RecordPerSample
    /\ [][C16_StepOn]_vars

C16_Witness ==
    /\ tf_pc = "done"
    /\ enable_ok
    /\ faults >= 1
    /\ Len(per_sample) = 16
    /\ ~per_sample[1].ok
    /\ verdict = "FAIL"

\* the input of tick t as the CTLE registers it: clipped on entry, 0 before tick 1
C17_X(t) == IF t >= 1 THEN _sc(xs[t]) ELSE 0

\* the boosted value a CTLE computes at tick t, before any clipping
C17_Boosted(t) == C17_X(t) + FloorDiv(C17_X(t - 1) - C17_X(t - 2), 4)

\* C17: a fresh CTLE outputs 0 at tick 1 and, at every later tick t,
\* sign-clip(x_(t-1) + floor((x_(t-2) - x_(t-3)) / 4)) with x clipped on entry
\* and x_0 = x_(-1) = 0; the boosted register is not clipped (it holds the
\* unclipped boosted value of the tick) and the output is always in 12 bits.
C17_CtleOutput ==
    /\ \A t \in 1..Len(zs) :
          /\ zs[t] = (IF t = 1 THEN 0 ELSE _sc(C17_Boosted(t - 1)))
          /\ InRange12(zs[t])
    /\ (Len(xs) >= 1 => stage.boosted = C17_Boosted(Len(xs)))

C17_Witness ==
    /\ Len(zs) >= 4
    /\ C17_Boosted(Len(zs) - 1) > 2047
    /\ Last(zs) = 2047
    /\ \E t \in 3..Len(zs) : /\ C17_X(t - 2) < C17_X(t - 3)
                             /\ (C17_X(t - 2) - C17_X(t - 3)) % 4 # 0

\* the output of a stage at tick t, taking the initial output register as 0
C18_Out(t) == IF t >= 1 THEN zs[t] ELSE 0

\* the feedback a DFE subtracts at tick t
C18_Fb(t) == IF t <= 2 THEN 0 ELSE IF C18_Out(t - 3) >= 0 THEN 64 ELSE 0 - 64

\* C18: a fresh DFE outputs sign-clip(in_t - fb_t) at tick t, where fb_t = 0 at
\* ticks 1 and 2 and, from tick 3 on, 64 if the output of tick t-3 (0 before
\* tick 1) was >= 0 and -64 otherwise; after each tick the feedback register is
\* 64 times the decision register of the tick before, and the decision
\* register is the sign of the output register before the tick's update.
C18_DfeFeedback ==
    /\ \A t \in 1..Len(zs) : zs[t] = _sc(xs[t] - C18_Fb(t))
    /\ (Len(zs) >= 1 =>
           /\ stage.fb = C18_Fb(Len(zs) + 1)
           /\ stage.prev_dec = (IF C18_Out(Len(zs) - 1) >= 0 THEN 1 ELSE 0 - 1))

C18_Witness ==
    /\ Len(zs) = 6
    /\ zs[1] < 0 /\ zs[4] = xs[4] + 64
    /\ zs[2] >= 0 /\ zs[5] = xs[5] - 64
    /\ zs[3] = 0 - 2048 /\ xs[3] - 64 < 0 - 2048
    /\ zs[6] = 2047 /\ xs[6] + 64 > 2047

\* the input of tick t as the LPF shifts it into its history, 0 before tick 1
C19_H(t) == IF t >= 1 THEN _sc(xs[t]) ELSE 0

\* the accumulator computed at tick t: from the history held before the shift
\* of that tick, which is the inputs of ticks t-1 .. t-5
C19_Acc(t) ==
    C19_H(t - 1) + 2 * C19_H(t - 2) + 3 * C19_H(t - 3) + 2 * C19_H(t - 4)
        + C19_H(t - 5)

\* the quotient of n by 9 rounded toward zero
C19_TruncDiv9(n) == IF n >= 0 THEN n \div 9 ELSE 0 - ((0 - n) \div 9)

\* C19: the LPF output at tick t is sign-clip(trunc-div(A, 9)) with A the
\* accumulator computed at tick t-3 from the history before that tick's shift
\* (the inputs of ticks t-4 .. t-8); after every tick the three pipeline
\* registers hold one step each (accumulate of this tick, divide of the tick
\* before, clip of the tick before that); no input affects the output sooner:
\* the output of tick t is determined by the inputs up to tick t-4.
C19_LpfPipeline ==
    /\ \A t \in 1..Len(zs) :
          zs[t] = _sc(C19_TruncDiv9(C19_Acc(t - 3)))
    /\ (Len(xs) >= 1 =>
           /\ stage.acc = C19_Acc(Len(xs))
           /\ stage.acc_d = C19_TruncDiv9(C19_Acc(Len(xs) - 1))
           /\ stage.pipe = _sc(C19_TruncDiv9(C19_Acc(Len(xs) - 2))))
    /\ \A t \in 1..Len(zs) : t <= 4 => zs[t] = 0

C19_Witness ==
    /\ Len(zs) = 9
    /\ C19_H(1) # 0 /\ C19_H(5) # 0
    /\ C19_Acc(6) < 0 /\ C19_Acc(6) % 9 # 0
    /\ zs[9] = 0 - ((0 - C19_Acc(6)) \div 9)
    /\ zs[9] # C19_Acc(6) \div 9

\* C20: a fresh DFE held at a constant c with -64 < c < 64 outputs, at every
\* tick t >= 3, c-64 or c+64, and its output three ticks later is the other
\* level (2c minus this one): the output never settles and repeats with period
\* 6, three ticks at one level and three at the other.
C20_DfeSquareWave ==
    \A t \in 3..Len(zs) :
        /\ zs[t] \in {held - 64, held + 64}
        /\ (t + 3 <= Len(zs) => zs[t + 3] = 2 * held - zs[t] /\ zs[t + 3] # zs[t])
        /\ (t + 6 <= Len(zs) => zs[t + 6] = zs[t])
        /\ (t >= 4 /\ t + 3 <= Len(zs) /\ zs[t] # zs[t - 1] =>
               zs[t + 1] = zs[t] /\ zs[t + 2] = zs[t] /\ zs[t + 3] # zs[t])

C20_Witness ==
    /\ Len(zs) = MaxHoldTicks
    /\ held < 0
    /\ zs[3] = held - 64 /\ zs[4] = held + 64 /\ zs[7] = held - 64
    /\ zs[10] = held + 64

\* the output a DC-offset tracker held at c settles to: min(c, 15) or 0
C21_Residual == IF held < 0 THEN 0 ELSE IF held < 15 THEN held ELSE 15

\* the running average lies between 0 and c
C21_Between ==
    IF held >= 0 THEN 0 <= stage.avg /\ stage.avg <= held
                 ELSE held <= stage.avg /\ stage.avg <= 0

\* average and output have reached their final values
C21_Settled ==
    /\ held - stage.avg = C21_Residual
    /\ stage.dout = C21_Residual

\* a call either moves the average toward c or leaves it where it is, and it
\* leaves it only at the final value
C21_Step ==
    /\ Abs(held - stage'.avg) <= Abs(held - stage.avg)
    /\ (stage'.avg = stage.avg <=> held - stage.avg = C21_Residual)

\* C21: a fresh DC-offset tracker held at a constant c in [-2048, 2047]
\* eventually stops changing its average; the average stays between 0 and c
\* all the way; the settled output c - average is min(c, 15) for c >= 0 and 0
\* for c < 0.
C21_DcSettles ==
    /\ []C21_Between
    /\ [][C21_Step]_vars
    /\ <>[]C21_Settled

C21_Witness ==
    /\ held = 2047 /\ stage.avg = 2032 /\ stage.dout = 15

\* C22: a glitch filter whose two stored samples both equal a, given S and then
\* a again (a, S in [-2048, 2047]): when |S - a| > 512 the output is a on the
\* tick of S and a on the tick after it; when |S - a| <= 512 the output on the
\* tick of S is S itself, and a on the tick after it.
C22_SpikeRemoved ==
    /\ (Len(xs) = 2 => stage.s1 = held /\ stage.s2 = held)
    /\ (Len(zs) >= 3 =>
           zs[3] = (IF Abs(xs[3] - held) > 512 THEN held ELSE xs[3]))
    /\ \A t \in 4..Len(zs) : xs[t] = held /\ zs[t] = held

C22_Witness ==
    /\ Len(zs) = 4
    /\ Abs(xs[3] - held) = 513
    /\ zs[3] = held /\ zs[4] = held
    /\ stage.s2 = xs[3]

====
